---- MODULE Spec2Model ----
(***************************************************************************)
(* A model of linux/kernel/ptree.c: the ptree system call, which walks the *)
(* task_struct tree from init_task in depth-first order under              *)
(* tasklist_lock and copies one struct prinfo per visited task to the      *)
(* caller.                                                                 *)
(*                                                                         *)
(* Tasks are identified by their pid (init_task has pid 0).  The two       *)
(* list_heads of a task, children and sibling, are modelled as addresses   *)
(* [k |-> "children"|"sibling", t |-> pid]; the circular lists they form   *)
(* are derived from the ordered child sequences of the tree.               *)
(***************************************************************************)
EXTENDS Integers, Sequences, FiniteSets, TLC

\* ------------------------------------------------------------------ bounds
\* The trees a request starts on have at most MaxNodes tasks.
MaxNodes == 4
\* At most MaxLive tasks exist at a time while the registry forks and reaps.
MaxLive == 3
\* At most MaxTraced tasks have parent # real_parent (are ptrace-attached).
MaxTraced == 1

\* --------------------------------------------------------------- constants
EXTRA_SLOTS == 15
EINVAL == 22
EFAULT == 14
ENOMEM == 12
\* pid of init_task, the root of the task tree
init_task == 0
\* the task_struct pointer container_of yields for a list head that is not
\* embedded in a task's sibling field (no task lives there)
BogusTask == -1
\* real_parent / parent of a pid that names no live task
NoTask == -2

\* A tree can grow to GrowLive tasks while a request is under way: the root
\* and more children than a probe of the root alone leaves room for.
GrowLive == EXTRA_SLOTS + 2
Pids == 0 .. (GrowLive - 1)
\* The caller-supplied *nr ranges over -1 .. MaxCap, and one value that
\* exceeds the task count by more than EXTRA_SLOTS.
MaxCap == MaxNodes + 1
BigCap == MaxNodes + EXTRA_SLOTS + 1
Caps == ((-1) .. MaxCap) \cup {BigCap}
\* A walk that stands at a task it has visited, or that has left the tree,
\* is cut off after MaxIter loop iterations (the int counter of the code is
\* unbounded for the model's purposes).
MaxIter == MaxNodes + 1

VARIABLES
    alive,        \* set of pids of the tasks in the tree
    real_parent,  \* tsk->real_parent, by pid
    parent,       \* tsk->parent (the SIGCHLD recipient), by pid
    children,     \* the tasks linked on tsk->children, in list order
    scribbled,    \* a word of some task's task_struct has been overwritten
    readers,      \* tasklist_lock: number of read holders
    wlocked,      \* tasklist_lock: held for writing
    pc,           \* position of the request in sys_ptree
    buf,          \* the buf argument: "NULL" or "valid"
    nr,           \* the nr argument: "NULL", "bad" (unreadable) or "valid"
    cap,          \* the value the caller put in *nr before the call
    unr,          \* *nr in user memory
    ubuf,         \* what has been written to buf in user memory
    knr,          \* sys_ptree locals
    nproc,
    kslots,
    kbuf,
    errno,
    iterations,   \* dfs_add locals
    cur,
    visited,      \* history: the tasks dfs_add has visited in this walk
    lockAcq,      \* history: read_lock calls of this request
    allocs,       \* history: successful kmalloc_array calls of this request
    frees,        \* history: kfree calls of this request
    calls,        \* history: requests completed
    probed,       \* history: the count the probe of this request returned
    last,         \* history: arguments and result of the previous request
    stable,       \* history: tree unchanged since this request entered
    stableLast    \* history: tree unchanged since the previous request entered

treeVars == <<alive, real_parent, parent, children, scribbled>>
lockVars == <<readers, wlocked>>
argVars  == <<buf, nr, cap>>
userVars == <<unr, ubuf>>
locVars  == <<knr, nproc, kslots, kbuf, errno, iterations, cur>>
histVars == <<visited, lockAcq, allocs, frees, calls, probed, last, stable,
              stableLast>>
vars == <<treeVars, lockVars, pc, argVars, userVars, locVars, histVars>>

\* ---------------------------------------------------------- list plumbing
ChildrenHead(t) == [k |-> "children", t |-> t]
SiblingHead(t) == [k |-> "sibling", t |-> t]

\* position of t in the sequence s (0 when absent)
IndexOf(s, t) == IF \E i \in 1..Len(s) : s[i] = t
                 THEN CHOOSE i \in 1..Len(s) : s[i] = t
                 ELSE 0

\* head->next of the circular list the head is linked on
ListNext(h) ==
    IF h.k = "children"
    THEN IF children[h.t] = <<>> THEN h ELSE SiblingHead(children[h.t][1])
    ELSE IF h.t = init_task
         THEN h
         ELSE LET s == children[real_parent[h.t]]
                  i == IndexOf(s, h.t)
              IN IF i < Len(s) THEN SiblingHead(s[i + 1])
                 ELSE ChildrenHead(real_parent[h.t])

\* head->prev of the circular list the head is linked on
ListPrev(h) ==
    IF h.k = "children"
    THEN IF children[h.t] = <<>> THEN h
         ELSE SiblingHead(children[h.t][Len(children[h.t])])
    ELSE IF h.t = init_task
         THEN h
         ELSE LET s == children[real_parent[h.t]]
                  i == IndexOf(s, h.t)
              IN IF i > 1 THEN SiblingHead(s[i - 1])
                 ELSE ChildrenHead(real_parent[h.t])

list_empty(head) == ListNext(head) = head
list_is_last(list, head) == ListNext(list) = head
\* list_entry(ptr, struct task_struct, sibling)
list_entry(ptr) == IF ptr.k = "sibling" THEN ptr.t ELSE BogusTask
\* list_first_entry(ptr, struct task_struct, sibling)
list_first_entry(ptr) == list_entry(ListNext(ptr))

task_pid_nr(t) == t
\* tsk->state, tsk->real_cred->uid and tsk->comm of a task
task_state(t) == t % 2
task_uid(t) == 1000 + t
task_comm(t) == t

\* ------------------------------------------------------------ the helpers
get_first_list_head(tsk) == ChildrenHead(parent[tsk])

get_ppid_of_parent(tsk) == task_pid_nr(parent[tsk])
get_ppid(tsk) == task_pid_nr(real_parent[tsk])

get_youngest_child_pid(tsk) ==
    IF list_empty(ChildrenHead(tsk))
    THEN 0
    ELSE task_pid_nr(list_entry(ListPrev(ChildrenHead(tsk))))

get_next_sibling_pid(tsk) ==
    IF list_is_last(SiblingHead(tsk), ChildrenHead(real_parent[tsk]))
    THEN 0
    ELSE task_pid_nr(list_entry(ListNext(SiblingHead(tsk))))

\* for_each_process starts at init_task and stops on coming back to it:
\* init_task itself is not counted
get_num_of_processes == Cardinality(alive \ {init_task})

store_node(tsk) ==
    [parent_pid       |-> get_ppid(tsk),
     pid              |-> task_pid_nr(tsk),
     first_child_pid  |-> get_youngest_child_pid(tsk),
     next_sibling_pid |-> get_next_sibling_pid(tsk),
     state            |-> task_state(tsk),
     uid              |-> task_uid(tsk),
     comm             |-> task_comm(tsk)]

\* a struct prinfo slot of kbuf that was never written
UninitPrinfo ==
    [parent_pid |-> -9, pid |-> -9, first_child_pid |-> -9,
     next_sibling_pid |-> -9, state |-> -9, uid |-> -9, comm |-> -9]

\* what store_node leaves in a slot when it is handed BogusTask: values
\* that were read through a pointer to no task
GarbagePrinfo ==
    [parent_pid |-> -1, pid |-> -1, first_child_pid |-> -1,
     next_sibling_pid |-> -1, state |-> -1, uid |-> -1, comm |-> -1]

MIN(a, b) == IF a < b THEN a ELSE b


\* ----------------------------------------------------------------- dfs_add
\* the inner while loop of dfs_add: list is computed once, before the loop
RECURSIVE dfs_climb(_, _)
dfs_climb(c, list) ==
    IF list_is_last(SiblingHead(c), list) /\ c # init_task
    THEN dfs_climb(real_parent[c], list)
    ELSE c

\* the cursor after one iteration of the outer loop at task c, and whether
\* the loop breaks
dfs_next(c) ==
    IF ~list_empty(ChildrenHead(c))
    THEN [cur |-> list_first_entry(ChildrenHead(c)), brk |-> FALSE]
    ELSE IF ~list_is_last(SiblingHead(c), get_first_list_head(c))
    THEN [cur |-> list_first_entry(SiblingHead(c)), brk |-> FALSE]
    ELSE LET up  == real_parent[c]
             top == dfs_climb(up, get_first_list_head(up))
             nxt == list_first_entry(SiblingHead(top))
         IN [cur |-> nxt, brk |-> (nxt = init_task)]

\* kbuf after "if (iterations < *knr) store_node(kbuf + iterations, cur)"
dfs_store(rec) ==
    IF iterations < kslots
    THEN [kbuf EXCEPT ![iterations + 1] = rec]
    ELSE kbuf

\* --------------------------------------------------------------- sys_ptree
NoResult == [valid |-> FALSE]

ResetLocals ==
    /\ knr' = 0 /\ nproc' = 0 /\ kslots' = 0 /\ kbuf' = <<>> /\ errno' = 0
    /\ iterations' = 0 /\ cur' = init_task

\* get_user(knr, nr): 0, or -EFAULT when nr cannot be read
get_user(n) == IF n = "bad" THEN -EFAULT ELSE 0

\* line 167
knr_invalid_lt0(k) == k < 0
knr_invalid(k) == k < 1

\* lines 157-170: argument checks, get_user(knr, nr)
sys_ptree_enter(b, n, c) ==
    /\ pc = "idle"
    /\ last.valid => (b = last.buf /\ n = last.nr /\ c = last.cap)
    /\ buf' = b /\ nr' = n /\ cap' = c
    /\ unr' = c /\ ubuf' = <<>>
    /\ visited' = <<>> /\ lockAcq' = 0 /\ allocs' = 0 /\ frees' = 0
    /\ probed' = 0
    /\ stable' = TRUE
    /\ UNCHANGED <<calls, last, stableLast>>
    /\ UNCHANGED <<nproc, kslots, kbuf, iterations, cur>>
    /\ IF b = "NULL" \/ n = "NULL"
       THEN errno' = -EINVAL /\ pc' = "done" /\ knr' = knr
       ELSE IF get_user(n) < 0
       THEN errno' = -EFAULT /\ pc' = "done" /\ knr' = knr
       ELSE /\ knr' = c
            /\ IF knr_invalid(c)
               THEN errno' = -EINVAL /\ pc' = "done"
               ELSE errno' = errno /\ pc' = "probe_lock"
    /\ UNCHANGED <<treeVars, lockVars>>

\* tasklist_lock's count of read holders after read_lock (granted only
\* while no writer holds the lock) and after read_unlock
read_lock(r) == r + 1
read_unlock_kept(r) == r
read_unlock(r) == r - 1

\* line 177: read_lock(&tasklist_lock)
sys_ptree_probe_lock ==
    /\ pc = "probe_lock"
    /\ ~wlocked
    /\ readers' = read_lock(readers)
    /\ lockAcq' = lockAcq + 1
    /\ pc' = "probe"
    /\ UNCHANGED <<treeVars, wlocked, argVars, userVars, locVars>>
    /\ UNCHANGED <<visited, allocs, frees, calls, probed, last, stable, stableLast>>

\* lines 178-179: nproc = get_num_of_processes(); read_unlock
sys_ptree_probe ==
    /\ pc = "probe"
    /\ nproc' = get_num_of_processes
    /\ probed' = nproc'
    /\ readers' = read_unlock(readers)
    /\ pc' = "alloc"
    /\ UNCHANGED <<treeVars, wlocked, argVars, userVars>>
    /\ UNCHANGED <<visited, lockAcq, allocs, frees, calls, last, stable, stableLast>>
    /\ UNCHANGED <<knr, kslots, kbuf, errno, iterations, cur>>

\* line 180: MIN(nproc + EXTRA_SLOTS, knr)
alloc_size_noslack(n, k) == MIN(n, k)
alloc_size(n, k) == MIN(n + EXTRA_SLOTS, k)

\* lines 180-181 without the test of line 182: the request goes on with
\* whatever kmalloc_array returned
sys_ptree_alloc_unchecked(ok) ==
    /\ pc = "alloc"
    /\ kslots' = alloc_size(nproc, knr)
    /\ kbuf' = IF ok THEN [i \in 1..kslots' |-> UninitPrinfo] ELSE <<>>
    /\ allocs' = IF ok THEN allocs + 1 ELSE allocs
    /\ errno' = errno
    /\ pc' = "walk_lock"
    /\ UNCHANGED <<treeVars, lockVars, argVars, userVars>>
    /\ UNCHANGED <<knr, nproc, iterations, cur>>
    /\ UNCHANGED <<visited, lockAcq, frees, calls, probed, last, stable, stableLast>>

\* lines 180-185: kslots = MIN(nproc + EXTRA_SLOTS, knr); kmalloc_array
sys_ptree_alloc(ok) ==
    /\ pc = "alloc"
    /\ kslots' = alloc_size(nproc, knr)
    /\ IF ok
       THEN /\ kbuf' = [i \in 1..kslots' |-> UninitPrinfo]
            /\ allocs' = allocs + 1
            /\ errno' = errno
            /\ pc' = "walk_lock"
       ELSE /\ kbuf' = <<>>
            /\ allocs' = allocs
            /\ errno' = -ENOMEM
            /\ pc' = "done"
    /\ UNCHANGED <<treeVars, lockVars, argVars, userVars>>
    /\ UNCHANGED <<knr, nproc, iterations, cur>>
    /\ UNCHANGED <<visited, lockAcq, frees, calls, probed, last, stable, stableLast>>

\* line 190, then lines 97-98 of dfs_add
sys_ptree_walk_lock ==
    /\ pc = "walk_lock"
    /\ ~wlocked
    /\ readers' = read_lock(readers)
    /\ lockAcq' = lockAcq + 1
    /\ iterations' = 0
    /\ cur' = init_task
    /\ pc' = "walk"
    /\ UNCHANGED <<treeVars, wlocked, argVars, userVars>>
    /\ UNCHANGED <<knr, nproc, kslots, kbuf, errno>>
    /\ UNCHANGED <<visited, allocs, frees, calls, probed, last, stable, stableLast>>

\* the walk has been at tasks of the tree only, at none of them twice
FreshWalk ==
    /\ \A i \in 1..Len(visited) : visited[i] \in alive \ {cur}
    /\ Cardinality({visited[i] : i \in 1..Len(visited)}) = Len(visited)

\* lines 99-133: one iteration of the while (1) loop at a task of the tree
dfs_add_step ==
    /\ pc = "walk"
    /\ cur \in alive
    /\ iterations < MaxIter \/ FreshWalk
    /\ kbuf' = dfs_store(store_node(cur))
    /\ iterations' = iterations + 1
    /\ visited' = Append(visited, cur)
    /\ LET n == dfs_next(cur)
       IN /\ cur' = n.cur
          /\ pc' = IF n.brk THEN "walk_ret" ELSE "walk"
    /\ UNCHANGED <<treeVars, lockVars, argVars, userVars>>
    /\ UNCHANGED <<knr, nproc, kslots, errno>>
    /\ UNCHANGED <<lockAcq, allocs, frees, calls, probed, last, stable, stableLast>>

\* lines 99-133 with cur pointing at no task: every read through cur is
\* undefined.  The iteration faults (the request never returns and the lock
\* stays held), or it reads garbage: an arbitrary record is stored and the
\* cursor is again no task, or it is init_task, with or without the loop
\* breaking there.  When a record is stored, get_task_comm (line 78) takes
\* task_lock(cur): the lock word it writes is then a word of a real task's
\* task_struct (cur lies one list_head before the task whose children head
\* it was computed from), which the lock and unlock leave as it was or
\* changed.
dfs_add_wild ==
    /\ pc = "walk"
    /\ cur \notin alive
    /\ iterations < MaxIter
    /\ \/ /\ pc' = "oops"
          /\ UNCHANGED <<kbuf, iterations, cur, visited, scribbled>>
       \/ \E nxt \in {init_task, BogusTask}, brk \in BOOLEAN :
            /\ brk => nxt = init_task
            /\ kbuf' = dfs_store(GarbagePrinfo)
            /\ \/ scribbled' = scribbled
               \/ iterations < kslots /\ scribbled' = TRUE
            /\ iterations' = iterations + 1
            /\ visited' = Append(visited, BogusTask)
            /\ cur' = nxt
            /\ pc' = IF brk THEN "walk_ret" ELSE "walk"
    /\ UNCHANGED <<alive, real_parent, parent, children>>
    /\ UNCHANGED <<lockVars, argVars, userVars>>
    /\ UNCHANGED <<knr, nproc, kslots, errno>>
    /\ UNCHANGED <<lockAcq, allocs, frees, calls, probed, last, stable, stableLast>>

\* line 135: *knr = iterations < *knr ? iterations : *knr
dfs_knr_unclamped == kslots
dfs_knr == IF iterations < kslots THEN iterations ELSE kslots

\* lines 134-136 of dfs_add, then lines 191-192: nproc = dfs_add(...);
\* read_unlock
dfs_add_return ==
    /\ pc = "walk_ret"
    /\ kslots' = dfs_knr
    /\ nproc' = iterations
    /\ readers' = read_unlock(readers)
    /\ pc' = "copy"
    /\ UNCHANGED <<treeVars, wlocked, argVars, userVars, histVars>>
    /\ UNCHANGED <<knr, kbuf, errno, iterations, cur>>

\* copy_to_user returns the number of bytes it could NOT copy (never a
\* negative value); left is that number, in records
copy_to_user(left) == left

\* what a copy of k records can leave uncopied: nothing, the last record,
\* everything
CopyLeft(k) == {0, 1, k} \cap (0..k)

\* line 207: the count of kfree calls after kfree(kbuf)
kfree_missing(f) == f
kfree(f) == f + 1

\* lines 194-209: copy_to_user, put_user, kfree, return
sys_ptree_copy(left, putFault) ==
    /\ pc = "copy"
    /\ left \in CopyLeft(kslots)
    /\ ubuf' = SubSeq(kbuf, 1, kslots - left)
    /\ LET rval == copy_to_user(left)
       IN IF rval < 0
          THEN errno' = -EFAULT /\ unr' = unr
          ELSE IF putFault
          THEN errno' = -EFAULT /\ unr' = unr
          ELSE errno' = nproc /\ unr' = kslots
    /\ frees' = kfree(frees)
    /\ kbuf' = <<>>
    /\ pc' = "done"
    /\ UNCHANGED <<treeVars, lockVars, argVars>>
    /\ UNCHANGED <<knr, nproc, kslots, iterations, cur>>
    /\ UNCHANGED <<visited, lockAcq, allocs, calls, probed, last, stable, stableLast>>

\* the request has returned errno and delivered its records; the caller may
\* issue the same request once more
sys_ptree_done ==
    /\ pc = "done"
    /\ errno >= 0
    /\ Len(ubuf) = unr
    /\ ~last.valid
    /\ pc' = "idle"
    /\ calls' = calls + 1
    /\ last' = [valid |-> TRUE, buf |-> buf, nr |-> nr, cap |-> cap,
                errno |-> errno, unr |-> unr, ubuf |-> ubuf]
    /\ stableLast' = stable
    /\ ResetLocals
    /\ UNCHANGED <<treeVars, lockVars, argVars, userVars>>
    /\ UNCHANGED <<visited, lockAcq, allocs, frees, probed, stable>>


\* ------------------------------------------------------- the task registry
\* (fork, exit and ptrace live outside ptree.c; they change the tree only
\* with tasklist_lock held for writing)
InsertAt(s, k, x) == SubSeq(s, 1, k) \o <<x>> \o SubSeq(s, k + 1, Len(s))
RemoveFrom(s, x) == SelectSeq(s, LAMBDA y : y # x)

Traced == {t \in alive : parent[t] # real_parent[t]}

write_lock ==
    /\ ~wlocked
    /\ readers = 0
    /\ wlocked' = TRUE
    /\ UNCHANGED <<treeVars, readers, pc, argVars, userVars, locVars, histVars>>

write_unlock ==
    /\ wlocked
    /\ wlocked' = FALSE
    /\ UNCHANGED <<treeVars, readers, pc, argVars, userVars, locVars, histVars>>

\* what every change of the tree does to the rest of the state.  Once the
\* walk has returned the request reads the tree no more, and changes made
\* after that are not followed.
Mutated ==
    /\ pc \notin {"copy", "done"}
    /\ stable' = FALSE
    /\ stableLast' = FALSE
    /\ UNCHANGED <<visited, lockAcq, allocs, frees, calls, probed, last>>
    /\ UNCHANGED <<lockVars, pc, argVars, userVars, locVars>>

\* the lowest pid from i on that no task has
RECURSIVE FirstFree(_)
FirstFree(i) == IF i \in alive THEN FirstFree(i + 1) ELSE i

\* task p creates the child c (the lowest free pid), linked at the head or
\* at the tail of p->children, while fewer than limit tasks exist
do_fork_within(p, c, atHead, limit) ==
    /\ wlocked
    /\ p \in alive
    /\ Cardinality(alive) < limit
    /\ c \in Pids \ alive
    /\ \A d \in Pids \ alive : c <= d
    /\ alive' = alive \cup {c}
    /\ real_parent' = [real_parent EXCEPT ![c] = p]
    /\ parent' = [parent EXCEPT ![c] = p]
    /\ children' = [children EXCEPT
                      ![p] = IF atHead THEN <<c>> \o @ ELSE Append(@, c)]
    /\ scribbled' = scribbled
    /\ Mutated

do_fork(p, c, atHead) == do_fork_within(p, c, atHead, MaxLive)

\* init_task creates one more child, up to GrowLive tasks in all
do_fork_grow(c) == do_fork_within(init_task, c, FALSE, GrowLive)

\* the childless task t is released; the tasks it traced go back to their
\* real parents
do_exit(t) ==
    /\ wlocked
    /\ t \in alive \ {init_task}
    /\ children[t] = <<>>
    /\ alive' = alive \ {t}
    /\ real_parent' = [real_parent EXCEPT ![t] = NoTask]
    /\ parent' = [x \in Pids |->
                    IF x = t THEN NoTask
                    ELSE IF parent[x] = t THEN real_parent[x]
                    ELSE parent[x]]
    /\ children' = [children EXCEPT ![real_parent[t]] = RemoveFrom(@, t)]
    /\ scribbled' = scribbled
    /\ Mutated

\* tracer attaches to t: t->parent becomes the tracer, t stays linked on
\* its real parent's children list
ptrace_attach(t, tracer) ==
    /\ wlocked
    /\ t \in alive \ {init_task}
    /\ tracer \in alive \ {t, real_parent[t]}
    /\ parent[t] = real_parent[t]
    /\ Cardinality(Traced) < MaxTraced
    /\ parent' = [parent EXCEPT ![t] = tracer]
    /\ UNCHANGED <<alive, real_parent, children, scribbled>>
    /\ Mutated

ptrace_detach(t) ==
    /\ wlocked
    /\ t \in Traced
    /\ parent' = [parent EXCEPT ![t] = real_parent[t]]
    /\ UNCHANGED <<alive, real_parent, children, scribbled>>
    /\ Mutated

\* ---------------------------------------------------------- initial states
InitRequest ==
    /\ readers = 0 /\ wlocked = FALSE
    /\ pc = "idle"
    /\ buf = "NULL" /\ nr = "NULL" /\ cap = 0
    /\ unr = 0 /\ ubuf = <<>>
    /\ knr = 0 /\ nproc = 0 /\ kslots = 0 /\ kbuf = <<>> /\ errno = 0
    /\ iterations = 0 /\ cur = init_task
    /\ visited = <<>> /\ lockAcq = 0 /\ allocs = 0 /\ frees = 0
    /\ calls = 0 /\ probed = 0 /\ last = NoResult
    /\ stable = TRUE /\ stableLast = TRUE

\* the children sequences of the tree in which task i = 1 .. n-1 was linked
\* under rp[i] at position pos[i] of the list as it stood then
RECURSIVE LinkAll(_, _, _, _, _)
LinkAll(n, rp, pos, i, ch) ==
    IF i >= n THEN ch
    ELSE LinkAll(n, rp, pos, i + 1,
                 [ch EXCEPT ![rp[i]] = InsertAt(@, pos[i], i)])

RECURSIVE LinkOk(_, _, _, _, _)
LinkOk(n, rp, pos, i, ch) ==
    IF i >= n THEN TRUE
    ELSE /\ pos[i] <= Len(ch[rp[i]])
         /\ LinkOk(n, rp, pos, i + 1,
                   [ch EXCEPT ![rp[i]] = InsertAt(@, pos[i], i)])

NoChildren == [t \in Pids |-> <<>>]

\* the system boots with init_task alone
Init ==
    /\ alive = {init_task}
    /\ real_parent = [t \in Pids |-> IF t = init_task THEN init_task ELSE NoTask]
    /\ parent = real_parent
    /\ children = NoChildren
    /\ scribbled = FALSE
    /\ InitRequest

\* any tree of 1 .. MaxNodes tasks, with at most MaxTraced of them traced
InitStatic ==
    /\ \E n \in 1..MaxNodes :
         \E rp \in [1..(n - 1) -> 0..(n - 1)], pos \in [1..(n - 1) -> 0..(n - 1)] :
            /\ \A i \in 1..(n - 1) : rp[i] < i
            /\ LinkOk(n, rp, pos, 1, NoChildren)
            /\ alive = 0..(n - 1)
            /\ real_parent = [t \in Pids |->
                                IF t = init_task THEN init_task
                                ELSE IF t < n THEN rp[t] ELSE NoTask]
            /\ children = LinkAll(n, rp, pos, 1, NoChildren)
    /\ \E T \in SUBSET (alive \ {init_task}) :
         /\ Cardinality(T) <= MaxTraced
         /\ \E tracer \in [T -> alive] :
              /\ \A t \in T : tracer[t] \notin {t, real_parent[t]}
              /\ parent = [t \in Pids |->
                             IF t \in T THEN tracer[t] ELSE real_parent[t]]
    /\ scribbled = FALSE
    /\ InitRequest

\* ------------------------------------------------------------ next states
Request ==
    \/ \E b \in {"NULL", "valid"}, n \in {"NULL", "bad", "valid"}, c \in Caps :
          sys_ptree_enter(b, n, c)
    \/ sys_ptree_probe_lock
    \/ sys_ptree_probe
    \/ \E ok \in BOOLEAN : sys_ptree_alloc(ok)
    \/ sys_ptree_walk_lock
    \/ dfs_add_step
    \/ dfs_add_wild
    \/ dfs_add_return
    \/ \E left \in 0..BigCap, putFault \in BOOLEAN : sys_ptree_copy(left, putFault)

Registry ==
    \/ write_lock
    \/ write_unlock
    \/ \E p \in alive, atHead \in BOOLEAN : do_fork(p, FirstFree(0), atHead)
    \/ \E t \in alive : do_exit(t)
    \/ \E t \in alive, tracer \in alive : ptrace_attach(t, tracer)
    \/ \E t \in alive : ptrace_detach(t)

\* one request, with the registry forking, reaping and tracing around it
Next == Request \/ Registry

Spec == Init /\ [][Next]_vars

\* a request on a tree nothing changes, and the same request once more
NextStatic == Request \/ sys_ptree_done

SpecStatic == InitStatic /\ [][NextStatic]_vars

\* a request while init_task forks child after child: a tree on which the
\* cursor never leaves the tree, so that no iteration runs without a task
RequestGrow ==
    \/ \E b \in {"NULL", "valid"}, n \in {"NULL", "bad", "valid"}, c \in Caps :
          sys_ptree_enter(b, n, c)
    \/ sys_ptree_probe_lock
    \/ sys_ptree_probe
    \/ \E ok \in BOOLEAN : sys_ptree_alloc(ok)
    \/ sys_ptree_walk_lock
    \/ dfs_add_step
    \/ dfs_add_return
    \/ \E left \in 0..BigCap, putFault \in BOOLEAN : sys_ptree_copy(left, putFault)

NextGrow ==
    \/ RequestGrow
    \/ write_lock
    \/ write_unlock
    \/ do_fork_grow(FirstFree(0))

SpecGrow == Init /\ [][NextGrow]_vars


\* ------------------------------------------------------------- properties
\* the number of tasks in the tree
NodeCount == Cardinality(alive)

\* the depth-first pre-order of the forest whose roots are the tasks of s:
\* a task, then the subtrees of its children in sibling-chain order, then
\* the later tasks of s
RECURSIVE PreorderOf(_)
PreorderOf(s) ==
    IF s = <<>> THEN <<>>
    ELSE <<Head(s)>> \o PreorderOf(children[Head(s)]) \o PreorderOf(Tail(s))

DfsOrder == PreorderOf(<<init_task>>)

IsPrefix(a, b) == Len(a) <= Len(b) /\ SubSeq(b, 1, Len(a)) = a

\* the last task on its real parent's children list
LastSibling(t) ==
    LET s == children[real_parent[t]] IN s # <<>> /\ s[Len(s)] = t

\* the task after t on its real parent's children list
NextSibling(t) ==
    LET s == children[real_parent[t]] IN s[IndexOf(s, t) + 1]

\* the walk is in progress, tasklist_lock read-held
Walking == pc \in {"walk", "walk_ret"}

\* the request returned a result and the caller has all of its records
Delivered == pc = "done" /\ errno >= 0 /\ Len(ubuf) = unr

ValidArgs == buf = "valid" /\ nr = "valid"

\* the records of kbuf written so far
Stored == SubSeq(kbuf, 1, MIN(iterations, Len(kbuf)))

Pidsof(recs) == {recs[i].pid : i \in 1..Len(recs)}

\* C1: on a tree that does not change, snapshot(capacity) with capacity >=
\* node_count returns exactly node_count records, every task of the tree
\* appearing exactly once, and total_visited = node_count; so the walk never
\* holds more records than there are tasks, nor a task twice.
C1_Claim ==
    /\ (Walking /\ knr >= NodeCount) =>
          /\ Len(Stored) <= NodeCount
          /\ Cardinality(Pidsof(Stored)) = Len(Stored)
    /\ (Delivered /\ cap >= NodeCount) =>
          /\ unr = NodeCount
          /\ errno = NodeCount
          /\ Pidsof(ubuf) = alive

\* C2: on a tree that does not change, the tasks are visited in DFS
\* pre-order: what the walk has visited is at every moment a prefix of the
\* pre-order of the tree (root first, children after their parent in
\* sibling-chain order, descendants before later siblings), and all of it
\* once the walk has returned.
C2_Claim ==
    /\ IsPrefix(visited, DfsOrder)
    /\ pc \in {"walk_ret", "copy"} => visited = DfsOrder

\* C3: on a tree that does not change, snapshot(k) with 1 <= k < node_count
\* returns the first k records of the full DFS order and total_visited =
\* node_count: the walk goes on counting after the buffer is full, and it is
\* over once node_count tasks are counted.
C3_Claim ==
    (ValidArgs /\ 1 <= cap /\ cap < NodeCount) =>
        /\ pc = "walk" => iterations < NodeCount
        /\ Delivered =>
              /\ errno = NodeCount
              /\ ubuf = [i \in 1..cap |-> store_node(DfsOrder[i])]

\* C4: the walk from the root under the read lock terminates after visiting
\* at most node_count tasks: while it goes on it has visited fewer tasks than
\* the tree holds, and total_visited never exceeds their number.
C4_Claim ==
    /\ pc = "walk" => Len(visited) < NodeCount
    /\ pc \in {"walk_ret", "copy"} => Len(visited) <= NodeCount

\* C5: on the tree that holds init_task alone, snapshot(1) returns
\* records = [R] and total_visited = 1: the walk is over after its first
\* visit.
C5_Claim ==
    (alive = {init_task} /\ ValidArgs /\ cap = 1) =>
        /\ pc = "walk" => iterations = 0
        /\ Delivered => ubuf = <<store_node(init_task)>> /\ errno = 1

\* C6: with tasks created and destroyed around the request, also between
\* the probe and the walk, every returned result has
\* records.length <= min(capacity, total_visited).
C6_Bounded ==
    /\ pc = "copy" => kslots <= MIN(knr, nproc)
    /\ (pc = "done" /\ errno >= 0) =>
          /\ unr <= MIN(cap, errno)
          /\ Len(ubuf) <= MIN(cap, errno)

\* a truncated result of a request whose probe saw another tree than its walk
C6_Witness ==
    /\ pc = "done" /\ errno >= 1 /\ ~stable
    /\ probed + 1 # errno
    /\ unr = cap /\ cap < errno
    /\ Len(ubuf) = unr

\* C7: snapshot(capacity) with capacity < 1 fails with EINVAL before taking
\* the lock, before allocating, and without writing a record or a count to
\* the caller.
C7_Invalid ==
    (pc = "done" /\ ValidArgs /\ cap < 1) =>
        /\ errno = -EINVAL
        /\ lockAcq = 0 /\ readers = 0
        /\ allocs = 0 /\ kbuf = <<>>
        /\ ubuf = <<>> /\ unr = cap

\* snapshot(0) has returned while a writer holds the lock
C7_Witness == pc = "done" /\ ValidArgs /\ cap = 0 /\ wlocked /\ NodeCount > 1

\* C8: a record's first_child_pid is the pid of the child the walk visits
\* first among the task's children (the task visited right after it), and 0
\* exactly when the task has no children.
C8_Claim ==
    Walking =>
        \A i \in 1..Len(Stored) :
            visited[i] \in alive =>
                LET t == visited[i]
                    r == kbuf[i]
                IN /\ (r.first_child_pid = 0) <=> (children[t] = <<>>)
                   /\ children[t] # <<>> =>
                         /\ r.first_child_pid = children[t][1]
                         /\ i < Len(visited) => visited[i + 1] = r.first_child_pid

\* the record of task t is right about its parent and its next sibling
RecordMatches(r, t) ==
    /\ r.pid = t
    /\ r.parent_pid = real_parent[t]
    /\ (r.next_sibling_pid = 0) <=> LastSibling(t)
    /\ ~LastSibling(t) => r.next_sibling_pid = NextSibling(t)

C11_Claim ==
    /\ Walking => iterations <= NodeCount
    /\ pc = "walk_ret" =>
          /\ iterations = NodeCount
          /\ {visited[i] : i \in 1..Len(visited)} = alive

RECURSIVE ClimbTo(_)
ClimbTo(t) ==
    IF t = init_task \/ ~LastSibling(t) THEN t ELSE ClimbTo(real_parent[t])

\* the task the walk has visited last
LastVisited == visited[Len(visited)]

\* C13: when the task just visited is childless and the last of its
\* siblings, the walk climbs parent by parent to the nearest ancestor that
\* has a next sibling and goes on at that sibling, or is over when the climb
\* reaches init_task; also when the climb is two or more levels long.
\* (Stated for trees without traced tasks and for tasks below the root.)
C13_Claim ==
    (/\ Walking /\ visited # <<>> /\ Traced = {}
     /\ LastVisited \in alive \ {init_task}
     /\ children[LastVisited] = <<>>
     /\ LastSibling(LastVisited)) =>
        LET top == ClimbTo(LastVisited)
        IN IF top = init_task
           THEN pc = "walk_ret"
           ELSE pc = "walk" /\ cur = NextSibling(top)

\* C14: at every step of the walk the cursor is a task of the tree, never
\* the task_struct pointer made from a list head, and every record stored
\* and every visit counted is that of a task of the tree.
C14_Claim ==
    /\ Walking => cur \in alive
    /\ \A i \in 1..Len(visited) : visited[i] \in alive
    /\ Walking => \A i \in 1..Len(Stored) : kbuf[i].pid \in alive

\* where the request stands while it holds tasklist_lock
Locked == pc \in {"probe", "walk", "walk_ret", "oops"}

C15_Held ==
    /\ readers = IF Locked THEN 1 ELSE 0
    /\ wlocked => ~Locked
    /\ lockAcq <= 2
    /\ pc \in {"alloc", "copy", "done"} => readers = 0
    /\ (pc = "copy" \/ (pc = "done" /\ errno >= 0)) => lockAcq = 2

\* C15: a request that succeeds has taken tasklist_lock exactly twice, for
\* reading (for the probe and for the walk), and released it each time; the
\* request does not hold the lock while it allocates kbuf or copies to the
\* caller, nor when it returns, whatever it returns; and the request never
\* takes or releases the lock for writing: in a step that does, the request
\* stays where it is.
C15_Locking ==
    /\ []C15_Held
    /\ [][wlocked' # wlocked =>
             UNCHANGED <<readers, pc, argVars, userVars, locVars, lockAcq>>]_vars

\* a request has succeeded; a writer changed the tree between its probe and
\* its walk and another holds the lock while the request returns
C15_Witness ==
    /\ pc = "done" /\ errno >= 1 /\ lockAcq = 2
    /\ ~stable /\ wlocked /\ readers = 0

\* C16: with tasks created and destroyed around it, every request that has
\* taken tasklist_lock for its walk releases it and returns, so that a
\* writer waiting for the lock gets it.  The lock freezes the tree and the
\* next cursor is a function of the cursor and the tree, so the walk
\* returns only if it never faults with the lock held and never stands
\* again at a task it has visited: from there it would repeat the same
\* iterations for ever.
C16_Claim ==
    /\ pc # "oops"
    /\ pc = "walk" => cur \notin {visited[i] : i \in 1..Len(visited)}

\* the size kbuf was allocated with, from the probe count and *nr
AllocSize == MIN(probed + EXTRA_SLOTS, cap)

\* C17: the size of kbuf is fixed before the walk as min(n + 15, capacity),
\* n the count of the probe, and a request that succeeds reports exactly
\* min(that size, total_visited) records; so when the tree has grown by
\* more than 15 tasks between the probe and the walk, the result is cut
\* short although the capacity is at least the number of tasks, and the
\* request still succeeds, with total_visited above the number of records.
C17_Sizing ==
    /\ pc \in {"walk_lock", "walk", "walk_ret"} =>
          kslots = AllocSize /\ Len(kbuf) = AllocSize
    /\ (pc = "done" /\ errno >= 0) => unr = MIN(AllocSize, errno)
    /\ (/\ pc = "done" /\ allocs = 1 /\ errno # -EFAULT
        /\ NodeCount > (probed + 1) + EXTRA_SLOTS
        /\ cap >= NodeCount) =>
          /\ errno = NodeCount
          /\ unr = AllocSize /\ unr < errno

\* the probe counted on the tree of init_task alone, sixteen tasks were
\* forked before the walk, and the caller, with room for all seventeen,
\* has been handed fifteen records and total_visited = 17
C17_Witness ==
    /\ Delivered /\ probed = 0
    /\ NodeCount = EXTRA_SLOTS + 2 /\ cap >= NodeCount
    /\ errno = NodeCount
    /\ unr = EXTRA_SLOTS /\ Len(ubuf) = unr

\* C18: when kmalloc_array fails the request returns -ENOMEM: it has taken
\* the lock once, for the probe, has not walked, and has written neither a
\* record nor a count to the caller; and a request goes on to the walk only
\* with a buffer.
C18_NoMem ==
    /\ pc \in {"walk_lock", "walk", "walk_ret", "copy"} => allocs = 1
    /\ (pc = "done" /\ lockAcq >= 1 /\ allocs = 0) => errno = -ENOMEM
    /\ (pc = "done" /\ errno = -ENOMEM) =>
          /\ lockAcq = 1 /\ readers = 0
          /\ allocs = 0 /\ frees = 0 /\ kbuf = <<>>
          /\ visited = <<>>
          /\ ubuf = <<>> /\ unr = cap

\* the allocation has failed for a request on a tree of several tasks
C18_Witness ==
    /\ pc = "done" /\ errno = -ENOMEM
    /\ NodeCount > 1 /\ cap > 1 /\ probed = NodeCount - 1

\* C19: when the copy of the records or of their count to the caller fails
\* (some of the records do not arrive, or *nr is not written), the request
\* returns -EFAULT, not total_visited.
C19_Claim ==
    (pc = "done" /\ frees = 1) =>
        ((Len(ubuf) < kslots \/ unr # kslots) => errno = -EFAULT)

\* C20: the buffer a request has allocated is freed exactly once before the
\* request returns, whether the transfer to the caller succeeds or fails,
\* and a request that has allocated no buffer frees none.
C20_Freed ==
    /\ allocs <= 1 /\ frees <= allocs
    /\ pc \in {"walk_lock", "walk", "walk_ret", "copy"} => frees = 0
    /\ pc = "done" => frees = allocs /\ kbuf = <<>>
    /\ (pc = "done" /\ lockAcq = 2) => frees = 1

\* a request has returned -EFAULT after a copy that left records uncopied
\* and has freed its buffer
C20_Witness ==
    /\ pc = "done" /\ errno = -EFAULT
    /\ allocs = 1 /\ frees = 1
    /\ kslots >= 2 /\ Len(ubuf) < kslots

====
